---- MODULE Spec2Model ----
(***************************************************************************)
(* A model of src/src/types.rs: the subscription consumer loop             *)
(* (Subscription::consume / consume_async driving on_event over the        *)
(* subscription's channel), and the pure functions of ExpectedVersion and  *)
(* Position.                                                               *)
(***************************************************************************)
EXTENDS Integers, Sequences, FiniteSets

----------------------------------------------------------------------------
(* Bounds of the model.                                                    *)

\* The model is checked under two specifications over the same actions.
\* Spec bounds the consumer's use of the environment and lets the channel
\* carry longer sequences of SubEvents; SpecBatch bounds the sequences and
\* lets the consumer make more calls.

\* Spec: SubEvents the operation (the channel's producer) places on the
\* channel, calls of Subscription::confirmation, and push_ack / push_nak
\* calls a consumer makes in one when_event_appeared.
MaxEvents == 3
MaxWaiters == 2
LoopCalls == 0

\* SpecBatch: the same three.
BatchEvents == 2
BatchWaiters == 1
MaxCalls == 2

\* The oneshot channels of the model: as many as the larger bound.
MaxOneshots == 2

\* The capacity of the subscription's channel.
ChanCap == 2

\* SpecVersion: the versions Exact(n) drawn are those of
\* -MaxVersion..MaxVersion.
MaxVersion == 20

\* SpecPosition: commit and prepare are drawn from -MaxPos..MaxPos.
MaxPos == 2

\* SpecCredentials: a login or a password is at most MaxShort octets long,
\* or within MaxShort octets below, or MaxOver octets above, the largest
\* length one byte can hold.
MaxShort == 2
MaxOver == 2

\* SpecSlice: the events of a slice, and the event numbers of a stream.
MaxSliceEvents == 2
MaxNum == 2

----------------------------------------------------------------------------
(* Values.                                                                 *)

\* Option::None of a string, and of a Uuid.
None == "None"
NoUuid == <<>>

\* Uuids are byte arrays (16 bytes in the program, 2 here).
Uuid(n) == <<n, n>>

\* The event ids a consumer acknowledges or rejects.
EventIds == {Uuid(1), Uuid(2)}

\* The id of the persistent subscription group, when there is one.
GroupId == "group"

NakAction == {"Unknown", "Park", "Retry", "Skip", "Stop"}

\* messages::PersistentSubscriptionNakEvents_NakAction.
to_internal_nak_action(action) ==
    CASE action = "Unknown" -> "NakAction_Unknown"
      [] action = "Retry"   -> "NakAction_Retry"
      [] action = "Skip"    -> "NakAction_Skip"
      [] action = "Park"    -> "NakAction_Park"
      [] action = "Stop"    -> "NakAction_Stop"

SeqsUpTo(S, n) == UNION {[1..k -> S] : k \in 0..n}

----------------------------------------------------------------------------
(* The state of one Subscription and of the loop that consumes it.         *)

VARIABLES
    receiver,               \* the channel of SubEvents: Subscription.receiver
    handled,                \* the SubEvent the last on_event call was given
    events_placed,          \* Confirmed/EventAppeared/Dropped placed so far
    waiters_placed,         \* confirmation() calls made so far
    pc,                     \* the loop: which one runs, or how it ended
    confirmation_id,        \* State.confirmation_id
    persistent_id,          \* State.persistent_id
    confirmation_requests,  \* State.confirmation_requests (oneshot senders)
    buffer,                 \* State.buffer
    signalled,              \* per oneshot receiver: the sends it has received
    hooks,                  \* the consumer: the hooks invoked on it, in order
    run,                    \* the consumer: what its last when_event_appeared did
    sent,                   \* the Msgs the last on_event call sent on `sender`
    unsubscribes,           \* UnsubscribeFromStream packages sent so far
    version,                \* an ExpectedVersion a caller submits
    wire,                   \* its to_i64, as the write message carries it
    decoded,                \* from_i64 of the wire value
    pos_a, pos_b,           \* two Positions
    ordering,               \* what comparing pos_a with pos_b returned
    credentials,            \* a Credentials
    dst,                    \* the BytesMut write_to_bytes_mut is given
    size,                   \* what network_size returned
    slice,                  \* a StreamSlice or an AllSlice a read returned
    located,                \* its events()
    end_of_stream           \* what is_end_of_stream returned on located

loop_vars == <<receiver, handled, events_placed, waiters_placed, pc, confirmation_id,
               persistent_id, confirmation_requests, buffer, signalled, hooks,
               run, sent, unsubscribes>>

version_vars == <<version, wire, decoded>>

position_vars == <<pos_a, pos_b, ordering>>

credentials_vars == <<credentials, dst, size>>

slice_vars == <<slice, located, end_of_stream>>

types_vars == <<version_vars, position_vars, credentials_vars, slice_vars>>

vars == <<loop_vars, types_vars>>

\* The retry_count values of delivered events.
RetryCounts == {0, 1}

\* The ids of the oneshot channels confirmation() creates, in creation order.
Waiters == 1..MaxOneshots

\* The id the server gives the n-th event when it is a Confirmed.
ConfirmationId(n) == Uuid(10 + n)

\* The SubEvent variants, one record shape for all. n is the event's place
\* among the events the operation sends; req is the oneshot channel.
Confirmed(n, pid) ==
    [kind |-> "Confirmed", n |-> n, id |-> ConfirmationId(n),
     persistent_id |-> pid, retry_count |-> 0, req |-> 0]

EventAppeared(n, retry_count) ==
    [kind |-> "EventAppeared", n |-> n, id |-> NoUuid,
     persistent_id |-> None, retry_count |-> retry_count, req |-> 0]

Dropped(n) ==
    [kind |-> "Dropped", n |-> n, id |-> NoUuid,
     persistent_id |-> None, retry_count |-> 0, req |-> 0]

HasBeenConfirmed(w) ==
    [kind |-> "HasBeenConfirmed", n |-> 0, id |-> NoUuid,
     persistent_id |-> None, retry_count |-> 0, req |-> w]

\* No on_event call yet.
NoEvent ==
    [kind |-> None, n |-> 0, id |-> NoUuid,
     persistent_id |-> None, retry_count |-> 0, req |-> 0]

\* What a consumer does with the environment in one when_event_appeared: the
\* ids it passes to push_ack, the (ids, action, message) it passes to
\* push_nak_with_message (push_nak passes the message ""), and the decision
\* it returns.
NakCalls ==
    {[ids |-> <<Uuid(1)>>, action |-> "Park", message |-> ""],
     [ids |-> <<Uuid(2), Uuid(1)>>, action |-> "Park", message |-> ""],
     [ids |-> <<Uuid(1)>>, action |-> "Retry", message |-> "bad"]}

ConsumerRuns(max_calls) ==
    {r \in [acks : SeqsUpTo(EventIds, max_calls),
            naks : SeqsUpTo(NakCalls, max_calls),
            decision : {"Continue", "Drop"}] :
        Len(r.acks) + Len(r.naks) <= max_calls}

\* No when_event_appeared has run in the last on_event call.
NoRun ==
    [acks |-> <<>>, naks |-> <<>>, decision |-> None, retry_count |-> 0]

----------------------------------------------------------------------------
(* SubscriptionEnv and its two implementations.                            *)

PersistentSubscriptionEnv_new(retry_count) ==
    [acks |-> <<>>, naks |-> <<>>, retry_count |-> retry_count,
     persistent |-> TRUE]

NoopSubscriptionEnv ==
    [acks |-> <<>>, naks |-> <<>>, retry_count |-> 0, persistent |-> FALSE]

\* push_ack as it would be if it put the id in front.
push_ack_front(env, id) ==
    IF env.persistent THEN [env EXCEPT !.acks = <<id>> \o @] ELSE env

push_ack(env, id) ==
    IF env.persistent THEN [env EXCEPT !.acks = Append(@, id)] ELSE env

\* push_nak_with_message as it would be if it merged the ids into the
\* NakedEvents of an earlier call with the same action and message.
push_nak_grouped(env, ids, action, message) ==
    IF ~env.persistent THEN env
    ELSE IF \E i \in DOMAIN env.naks :
                env.naks[i].action = action /\ env.naks[i].message = message
    THEN LET i == CHOOSE j \in DOMAIN env.naks :
                      env.naks[j].action = action
                      /\ env.naks[j].message = message
         IN [env EXCEPT !.naks[i].ids = @ \o ids]
    ELSE [env EXCEPT !.naks = Append(@, [ids |-> ids, action |-> action,
                                        message |-> message])]

push_nak_with_message(env, ids, action, message) ==
    IF env.persistent
    THEN [env EXCEPT !.naks = Append(@, [ids |-> ids, action |-> action,
                                        message |-> message])]
    ELSE env

current_event_retry_count(env) ==
    IF env.persistent THEN env.retry_count ELSE 0

\* The consumer's calls of one when_event_appeared, applied to env.
RECURSIVE PushAcks(_, _)
PushAcks(env, ids) ==
    IF ids = <<>> THEN env
    ELSE PushAcks(push_ack(env, Head(ids)), Tail(ids))

RECURSIVE PushNaks(_, _)
PushNaks(env, calls) ==
    IF calls = <<>> THEN env
    ELSE LET c == Head(calls)
         IN PushNaks(push_nak_with_message(env, c.ids, c.action, c.message),
                     Tail(calls))

when_event_appeared(env, r) == PushNaks(PushAcks(env, r.acks), r.naks)

----------------------------------------------------------------------------
(* Packages.                                                               *)

\* A package is a command tag, a correlation id and a message; msg.type is
\* the message struct the payload was serialized from.
\* The correlation id of a package built by Pkg::from_message: a new one.
FreshId == Uuid(0)

NoMsg ==
    [type |-> None, subscription_id |-> None, processed_event_ids |-> <<>>,
     message |-> "", action |-> None]

Pkg_new(cmd, correlation) ==
    [cmd |-> cmd, correlation |-> correlation, msg |-> NoMsg]

Pkg_from_message(cmd, msg) ==
    [cmd |-> cmd, correlation |-> FreshId, msg |-> msg]

\* state.buffer.put_slice(id.as_bytes()); state.buffer.take().freeze()
put_slice(buf, id) == buf \o id

take(buf) == [bytes |-> buf, buffer |-> <<>>]

\* The loop over the ids of one message: the byte strings, and the buffer
\* it leaves.
RECURSIVE EncodeIds(_, _)
EncodeIds(buf, ids) ==
    IF ids = <<>> THEN [bytes_vec |-> <<>>, buffer |-> buf]
    ELSE LET t    == take(put_slice(buf, Head(ids)))
             rest == EncodeIds(t.buffer, Tail(ids))
         IN [bytes_vec |-> <<t.bytes>> \o rest.bytes_vec,
             buffer |-> rest.buffer]

\* The command tag on_event gives the package of a nak.
NakCmd == "PersistentSubscriptionAckEvents"

\* The package of the acks of one invocation: none when there are no acks.
AckPkgs(buf, sub_id, acks) ==
    IF acks = <<>> THEN [pkgs |-> <<>>, buffer |-> buf]
    ELSE LET e == EncodeIds(buf, acks)
         IN [pkgs |-> <<Pkg_from_message("PersistentSubscriptionAckEvents",
                          [type |-> "PersistentSubscriptionAckEvents",
                           subscription_id |-> sub_id,
                           processed_event_ids |-> e.bytes_vec,
                           message |-> "", action |-> None])>>,
             buffer |-> e.buffer]

\* The packages of the naks of one invocation: one for each NakedEvents.
RECURSIVE NakPkgs(_, _, _)
NakPkgs(buf, sub_id, naks) ==
    IF naks = <<>> THEN [pkgs |-> <<>>, buffer |-> buf]
    ELSE LET naked == Head(naks)
             e     == EncodeIds(buf, naked.ids)
             pkg   == Pkg_from_message(NakCmd,
                          [type |-> "PersistentSubscriptionNakEvents",
                           subscription_id |-> sub_id,
                           processed_event_ids |-> e.bytes_vec,
                           message |-> naked.message,
                           action |-> to_internal_nak_action(naked.action)])
             rest  == NakPkgs(e.buffer, sub_id, Tail(naks))
         IN [pkgs |-> <<pkg>> \o rest.pkgs, buffer |-> rest.buffer]

----------------------------------------------------------------------------
(* The channel's producers: the operation behind the subscription, which   *)
(* sends what the server sends, and Subscription::confirmation.            *)

\* The channel is bounded: a send waits while it is full. When the loop has
\* ended the receiver is dropped and a send fails.
HasRoom ==
    /\ pc \in {"consume", "consume_async"}
    /\ Len(receiver) < ChanCap

Quiet ==
    UNCHANGED <<types_vars, handled, pc, confirmation_id, persistent_id,
                confirmation_requests, buffer, signalled, hooks, run, sent,
                unsubscribes>>

SendConfirmed(max_events) ==
    /\ events_placed < max_events
    /\ HasRoom
    /\ \E pid \in {None, GroupId} :
           receiver' = Append(receiver, Confirmed(events_placed + 1, pid))
    /\ events_placed' = events_placed + 1
    /\ UNCHANGED waiters_placed
    /\ Quiet

SendEventAppeared(max_events) ==
    /\ events_placed < max_events
    /\ HasRoom
    /\ \E retry_count \in RetryCounts :
           receiver' = Append(receiver,
                              EventAppeared(events_placed + 1, retry_count))
    /\ events_placed' = events_placed + 1
    /\ UNCHANGED waiters_placed
    /\ Quiet

SendDropped(max_events) ==
    /\ events_placed < max_events
    /\ HasRoom
    /\ receiver' = Append(receiver, Dropped(events_placed + 1))
    /\ events_placed' = events_placed + 1
    /\ UNCHANGED waiters_placed
    /\ Quiet

\* Subscription::confirmation: a new oneshot channel, its sender sent on
\* the subscription's channel.
confirmation(max_waiters) ==
    /\ waiters_placed < max_waiters
    /\ HasRoom
    /\ receiver' = Append(receiver, HasBeenConfirmed(waiters_placed + 1))
    /\ waiters_placed' = waiters_placed + 1
    /\ UNCHANGED events_placed
    /\ Quiet

----------------------------------------------------------------------------
(* The loop: Subscription::consume and Subscription::consume_async, each   *)
(* step one on_event call on the next SubEvent of the channel.             *)

Running == pc \in {"consume", "consume_async"}

\* Recv as it would be if the stream yielded the newest item first.
Recv_newest(ch) ==
    [event |-> ch[Len(ch)], rest |-> SubSeq(ch, 1, Len(ch) - 1)]

\* The next item of the receiver's stream, and the channel without it.
Recv(ch) == [event |-> Head(ch), rest |-> Tail(ch)]

\* Stopped as it would be if the loop went on after OnEvent::Stop.
Stopped_goes_on(loop) == loop

\* OnEvent::Stop: consume breaks and returns the consumer; the fold of
\* consume_async ends with Err(()).
Stopped(loop) == IF loop = "consume" THEN "returned" ELSE "failed"

\* drain_requests as it would be if it sent without draining the queue.
drain_requests_keeps(reqs, sig) ==
    [confirmation_requests |-> reqs,
     signalled |-> [w \in DOMAIN sig |->
                       sig[w] + Cardinality({i \in DOMAIN reqs : reqs[i] = w})]]

\* State::drain_requests: every queued sender is sent to, the queue emptied.
drain_requests(reqs, sig) ==
    [confirmation_requests |-> <<>>,
     signalled |-> [w \in DOMAIN sig |->
                       sig[w] + Cardinality({i \in DOMAIN reqs : reqs[i] = w})]]

Hook(name, ev) == [hook |-> name, n |-> ev.n]

OnConfirmed ==
    /\ Running
    /\ receiver # <<>>
    /\ LET ev == Recv(receiver).event
           d  == drain_requests(confirmation_requests, signalled)
       IN /\ ev.kind = "Confirmed"
          /\ confirmation_id' = ev.id
          /\ persistent_id' = ev.persistent_id
          /\ confirmation_requests' = d.confirmation_requests
          /\ signalled' = d.signalled
          /\ hooks' = Append(hooks, Hook("when_confirmed", ev))
    /\ receiver' = Recv(receiver).rest
    /\ handled' = Recv(receiver).event
    /\ run' = NoRun
    /\ sent' = <<>>
    /\ UNCHANGED <<types_vars, events_placed, waiters_placed, pc, buffer,
                   unsubscribes>>

\* The EventAppeared arm up to `decision`: the consumer runs r against the
\* environment of the subscription's kind, then its acks and its naks are
\* packaged and sent.
\* Appeared as it would be if every subscription were given the persistent
\* environment.
Appeared_persistent_env(sub_id, buf, retry_count, r) ==
    LET env == when_event_appeared(
                   PersistentSubscriptionEnv_new(retry_count), r)
        a   == AckPkgs(buf, sub_id, env.acks)
        n   == NakPkgs(a.buffer, sub_id, env.naks)
    IN [sent |-> a.pkgs \o n.pkgs, buffer |-> n.buffer,
        retry_count |-> current_event_retry_count(env)]

\* Appeared as it would be if the naks were packaged and sent before the
\* acks.
Appeared_naks_first(sub_id, buf, retry_count, r) ==
    IF sub_id # None
    THEN LET env == when_event_appeared(
                        PersistentSubscriptionEnv_new(retry_count), r)
             n   == NakPkgs(buf, sub_id, env.naks)
             a   == AckPkgs(n.buffer, sub_id, env.acks)
         IN [sent |-> n.pkgs \o a.pkgs, buffer |-> a.buffer,
             retry_count |-> current_event_retry_count(env)]
    ELSE LET env == when_event_appeared(NoopSubscriptionEnv, r)
         IN [sent |-> <<>>, buffer |-> buf,
             retry_count |-> current_event_retry_count(env)]

Appeared(sub_id, buf, retry_count, r) ==
    IF sub_id # None
    THEN LET env == when_event_appeared(
                        PersistentSubscriptionEnv_new(retry_count), r)
             a   == AckPkgs(buf, sub_id, env.acks)
             n   == NakPkgs(a.buffer, sub_id, env.naks)
         IN [sent |-> a.pkgs \o n.pkgs, buffer |-> n.buffer,
             retry_count |-> current_event_retry_count(env)]
    ELSE LET env == when_event_appeared(NoopSubscriptionEnv, r)
         IN [sent |-> <<>>, buffer |-> buf,
             retry_count |-> current_event_retry_count(env)]

\* The package sent when the decision is Drop.
Unsubscribe(id) == Pkg_new("UnsubscribeFromStream", id)

OnEventAppeared(max_calls) ==
    /\ Running
    /\ receiver # <<>>
    /\ LET ev == Recv(receiver).event
       IN /\ ev.kind = "EventAppeared"
          /\ \E r \in ConsumerRuns(max_calls) :
                LET a     == Appeared(persistent_id, buffer, ev.retry_count, r)
                    drop  == r.decision = "Drop"
                    \* confirmation_id.expect(..) on None
                    panic == drop /\ confirmation_id = NoUuid
                    unsub == IF drop /\ ~panic
                             THEN <<Unsubscribe(confirmation_id)>>
                             ELSE <<>>
                IN /\ run' = [acks |-> r.acks, naks |-> r.naks,
                              decision |-> r.decision,
                              retry_count |-> a.retry_count]
                   /\ sent' = a.sent \o unsub
                   /\ buffer' = a.buffer
                   /\ unsubscribes' = unsubscribes + Len(unsub)
                   /\ pc' = IF panic THEN "panicked"
                            ELSE IF drop THEN Stopped(pc)
                            ELSE pc
          /\ hooks' = Append(hooks, Hook("when_event_appeared", ev))
    /\ receiver' = Recv(receiver).rest
    /\ handled' = Recv(receiver).event
    /\ UNCHANGED <<types_vars, events_placed, waiters_placed, confirmation_id,
                   persistent_id, confirmation_requests, signalled>>

OnDropped ==
    /\ Running
    /\ receiver # <<>>
    /\ LET ev == Recv(receiver).event
           d  == drain_requests(confirmation_requests, signalled)
       IN /\ ev.kind = "Dropped"
          /\ hooks' = Append(hooks, Hook("when_dropped", ev))
          /\ confirmation_requests' = d.confirmation_requests
          /\ signalled' = d.signalled
    /\ receiver' = Recv(receiver).rest
    /\ handled' = Recv(receiver).event
    /\ run' = NoRun
    /\ sent' = <<>>
    /\ UNCHANGED <<types_vars, events_placed, waiters_placed, pc, confirmation_id,
                   persistent_id, buffer, unsubscribes>>

\* IsConfirmed as it would be if the arm never looked at confirmation_id.
IsConfirmed_always(id) == TRUE

\* Whether the HasBeenConfirmed arm sends on the request at once.
IsConfirmed(id) == id # NoUuid

OnHasBeenConfirmed ==
    /\ Running
    /\ receiver # <<>>
    /\ LET ev == Recv(receiver).event
       IN /\ ev.kind = "HasBeenConfirmed"
          /\ IF IsConfirmed(confirmation_id)
             THEN /\ signalled' = [signalled EXCEPT ![ev.req] = @ + 1]
                  /\ UNCHANGED confirmation_requests
             ELSE /\ confirmation_requests' =
                         Append(confirmation_requests, ev.req)
                  /\ UNCHANGED signalled
    /\ receiver' = Recv(receiver).rest
    /\ handled' = Recv(receiver).event
    /\ run' = NoRun
    /\ sent' = <<>>
    /\ UNCHANGED <<types_vars, events_placed, waiters_placed, pc, confirmation_id,
                   persistent_id, buffer, hooks, unsubscribes>>

----------------------------------------------------------------------------
(* ExpectedVersion.                                                        *)

Any == [tag |-> "Any", n |-> 0]
StreamExists == [tag |-> "StreamExists", n |-> 0]
NoStream == [tag |-> "NoStream", n |-> 0]
Exact(n) == [tag |-> "Exact", n |-> n]

ExpectedVersions ==
    {Any, StreamExists, NoStream}
    \cup {Exact(n) : n \in -MaxVersion..MaxVersion}

to_i64(v) ==
    CASE v.tag = "Any"          -> -2
      [] v.tag = "StreamExists" -> -4
      [] v.tag = "NoStream"     -> -1
      [] v.tag = "Exact"        -> v.n

\* from_i64 as it would be with the arms of -2 and -4 exchanged.
from_i64_exchanged(ver) ==
    CASE ver = -2 -> StreamExists
      [] ver = -4 -> Any
      [] ver = -1 -> NoStream
      [] OTHER    -> Exact(ver)

from_i64(ver) ==
    CASE ver = -2 -> Any
      [] ver = -4 -> StreamExists
      [] ver = -1 -> NoStream
      [] OTHER    -> Exact(ver)

\* Option of an i64 and of an ExpectedVersion.
NoWire == [some |-> FALSE, value |-> 0]
NoVersion == [some |-> FALSE, value |-> Any]
Some(x) == [some |-> TRUE, value |-> x]

\* A writer encodes the version it was given.
Encode ==
    /\ ~wire.some
    /\ wire' = Some(to_i64(version))
    /\ UNCHANGED <<loop_vars, version, decoded, position_vars,
                   credentials_vars, slice_vars>>

\* A reader decodes the number it finds.
Decode ==
    /\ wire.some
    /\ ~decoded.some
    /\ decoded' = Some(from_i64(wire.value))
    /\ UNCHANGED <<loop_vars, version, wire, position_vars,
                   credentials_vars, slice_vars>>

----------------------------------------------------------------------------
(* Position.                                                               *)

Position(commit, prepare) == [commit |-> commit, prepare |-> prepare]

Position_start == Position(0, 0)

Position_end == Position(-1, -1)

Positions ==
    {Position(c, p) : c \in -MaxPos..MaxPos, p \in -MaxPos..MaxPos}
    \cup {Position_start, Position_end}

\* i64::cmp and Ordering::then.
cmp_i64(a, b) ==
    IF a < b THEN "Less" ELSE IF a = b THEN "Equal" ELSE "Greater"

then(first, second) == IF first = "Equal" THEN second ELSE first

\* cmp as it would be if it compared prepare before commit.
Position_cmp_prepare_first(self, other) ==
    then(cmp_i64(self.prepare, other.prepare),
         cmp_i64(self.commit, other.commit))

\* impl Ord for Position.
Position_cmp(self, other) ==
    then(cmp_i64(self.commit, other.commit),
         cmp_i64(self.prepare, other.prepare))

\* impl PartialOrd for Position; <= is PartialOrd's le over partial_cmp.
Position_partial_cmp(self, other) == Some(Position_cmp(self, other))

Position_le(self, other) ==
    LET o == Position_partial_cmp(self, other)
    IN o.some /\ o.value \in {"Less", "Equal"}

NoOrdering ==
    [done |-> FALSE, cmp |-> "Equal", partial_cmp |-> Some("Equal"),
     le |-> FALSE, ge |-> FALSE]

\* pos_a is compared with pos_b, each way.
Compare ==
    /\ ~ordering.done
    /\ ordering' = [done |-> TRUE,
                    cmp |-> Position_cmp(pos_a, pos_b),
                    partial_cmp |-> Position_partial_cmp(pos_a, pos_b),
                    le |-> Position_le(pos_a, pos_b),
                    ge |-> Position_le(pos_b, pos_a)]
    /\ UNCHANGED <<loop_vars, version_vars, pos_a, pos_b,
                   credentials_vars, slice_vars>>

----------------------------------------------------------------------------
(* Credentials.                                                            *)

\* u8: the values of one byte, and usize `as u8`.
U8Max == 255

as_u8(n) == n % (U8Max + 1)

\* Bytes: a sequence of octets; here n octets of the same value.
Bytes(n, octet) == [i \in 1..n |-> octet]

CredLens == 0..MaxShort \cup (U8Max - MaxShort)..(U8Max + MaxOver)

Credentials_new(login, password) == [login |-> login, password |-> password]

CredentialsSet ==
    {Credentials_new(Bytes(l, 97), Bytes(p, 98)) : l \in CredLens, p \in CredLens}

\* BufMut::put_u8 and BufMut::put on a BytesMut with room left.
put_u8(buf, octet) == Append(buf, octet)

put(buf, bytes) == buf \o bytes

\* write_to_bytes_mut returns (): it has no way to fail.
write_to_bytes_mut(self, buf) ==
    LET b1 == put_u8(buf, as_u8(Len(self.login)))
        b2 == put(b1, self.login)
        b3 == put_u8(b2, as_u8(Len(self.password)))
    IN put(b3, self.password)

network_size(self) == Len(self.login) + Len(self.password) + 2

NoBytes == [written |-> FALSE, failed |-> FALSE, bytes |-> <<>>]

NoSize == [some |-> FALSE, value |-> 0]

\* The credentials are serialized into an empty BytesMut the caller reserved
\* room in.
Write ==
    /\ ~dst.written
    /\ dst' = [written |-> TRUE, failed |-> FALSE,
               bytes |-> write_to_bytes_mut(credentials, <<>>)]
    /\ UNCHANGED <<loop_vars, version_vars, position_vars, credentials, size,
                   slice_vars>>

NetworkSize ==
    /\ ~size.some
    /\ size' = Some(network_size(credentials))
    /\ UNCHANGED <<loop_vars, version_vars, position_vars, credentials, dst,
                   slice_vars>>

----------------------------------------------------------------------------
(* Slices and LocatedEvents.                                               *)

ReadDirection == {"Forward", "Backward"}

\* Vec<ResolvedEvent>: the n events of a slice, told apart by their place.
ResolvedEvents(n) == [i \in 1..n |-> i]

\* Option<i64> and Option<Position> with no value.
NoNum == [some |-> FALSE, value |-> 0]

NoPosition == [some |-> FALSE, value |-> Position_start]

StreamSlice_new(direction, from, events, next_num_opt) ==
    [type |-> "StreamSlice", from |-> from, direction |-> direction,
     events |-> events, next |-> next_num_opt]

AllSlice_new(direction, from, events, next) ==
    [type |-> "AllSlice", from |-> from, direction |-> direction,
     events |-> events, next |-> next]

StreamSlices ==
    {StreamSlice_new(d, 0, ResolvedEvents(n), next) :
        d \in ReadDirection, n \in 0..MaxSliceEvents,
        next \in {NoNum} \cup {Some(k) : k \in 0..MaxNum}}

AllSlices ==
    {AllSlice_new(d, Position_start, ResolvedEvents(n), next) :
        d \in ReadDirection, n \in 0..MaxSliceEvents, next \in Positions}

\* LocatedEvents<A>.
EndOfStream(no_next) ==
    [tag |-> "EndOfStream", events |-> <<>>, next |-> no_next]

Events(events, next) == [tag |-> "Events", events |-> events, next |-> next]

NoLocated == [tag |-> "None", events |-> <<>>, next |-> NoNum]

\* impl Slice for StreamSlice: events.
StreamSlice_events(self) ==
    IF self.events = <<>>
    THEN EndOfStream(NoNum)
    ELSE IF ~self.next.some
         THEN Events(self.events, NoNum)
         ELSE Events(self.events, Some(self.next.value))

\* impl Slice for AllSlice: events.
AllSlice_events(self) ==
    IF self.events = <<>>
    THEN EndOfStream(NoPosition)
    ELSE Events(self.events, Some(self.next))

is_some(opt) == opt.some

is_end_of_stream(self) ==
    CASE self.tag = "EndOfStream" -> TRUE
      [] self.tag = "Events"      -> is_some(self.next)

NoAnswer == [some |-> FALSE, value |-> FALSE]

\* Slice::events on the slice a read returned.
SliceEvents ==
    /\ located.tag = "None"
    /\ located' = IF slice.type = "StreamSlice"
                  THEN StreamSlice_events(slice)
                  ELSE AllSlice_events(slice)
    /\ UNCHANGED <<loop_vars, version_vars, position_vars, credentials_vars,
                   slice, end_of_stream>>

IsEndOfStream ==
    /\ located.tag # "None"
    /\ ~end_of_stream.some
    /\ end_of_stream' = Some(is_end_of_stream(located))
    /\ UNCHANGED <<loop_vars, version_vars, position_vars, credentials_vars,
                   slice, located>>

----------------------------------------------------------------------------

\* State::new, an empty channel, and one of the two loops about to start.
LoopInit ==
    /\ receiver = <<>>
    /\ handled = NoEvent
    /\ events_placed = 0
    /\ waiters_placed = 0
    /\ pc \in {"consume", "consume_async"}
    /\ confirmation_id = NoUuid
    /\ persistent_id = None
    /\ confirmation_requests = <<>>
    /\ buffer = <<>>
    /\ signalled = [w \in Waiters |-> 0]
    /\ hooks = <<>>
    /\ run = NoRun
    /\ sent = <<>>
    /\ unsubscribes = 0

VersionIdle ==
    /\ version = Any
    /\ wire = NoWire
    /\ decoded = NoVersion

PositionIdle ==
    /\ pos_a = Position_start
    /\ pos_b = Position_start
    /\ ordering = NoOrdering

CredentialsIdle ==
    /\ credentials = Credentials_new(<<>>, <<>>)
    /\ dst = NoBytes
    /\ size = NoSize

SliceIdle ==
    /\ slice = StreamSlice_new("Forward", 0, <<>>, NoNum)
    /\ located = NoLocated
    /\ end_of_stream = NoAnswer

Init == LoopInit /\ VersionIdle /\ PositionIdle /\ CredentialsIdle /\ SliceIdle

Step(max_events, max_waiters, max_calls) ==
    \/ SendConfirmed(max_events)
    \/ SendEventAppeared(max_events)
    \/ SendDropped(max_events)
    \/ confirmation(max_waiters)
    \/ OnConfirmed
    \/ OnEventAppeared(max_calls)
    \/ OnDropped
    \/ OnHasBeenConfirmed

Next == Step(MaxEvents, MaxWaiters, LoopCalls)

Spec == Init /\ [][Next]_vars

\* The loop takes what the channel holds: receiver.wait() yields every
\* SubEvent placed, and the loop calls on_event on each until it ends. The
\* producers may stop placing at any time.
LoopStep ==
    \/ OnConfirmed
    \/ OnEventAppeared(LoopCalls)
    \/ OnDropped
    \/ OnHasBeenConfirmed

SpecLive == Spec /\ WF_vars(LoopStep)

\* SpecBatch is about what one on_event call sends, which is the same
\* under either loop: it runs consume.
InitBatch == Init /\ pc = "consume"

NextBatch == Step(BatchEvents, BatchWaiters, MaxCalls)

SpecBatch == InitBatch /\ [][NextBatch]_vars

\* ExpectedVersion: any version, encoded and then decoded.
InitVersion ==
    /\ LoopInit
    /\ PositionIdle
    /\ CredentialsIdle
    /\ SliceIdle
    /\ version \in ExpectedVersions
    /\ wire = NoWire
    /\ decoded = NoVersion

NextVersion ==
    \/ Encode
    \/ Decode

SpecVersion == InitVersion /\ [][NextVersion]_vars

\* Position: any two positions, compared.
InitPosition ==
    /\ LoopInit
    /\ VersionIdle
    /\ CredentialsIdle
    /\ SliceIdle
    /\ pos_a \in Positions
    /\ pos_b \in Positions
    /\ ordering = NoOrdering

NextPosition == Compare

SpecPosition == InitPosition /\ [][NextPosition]_vars

\* Credentials: any login and password, serialized and measured.
InitCredentials ==
    /\ LoopInit
    /\ VersionIdle
    /\ PositionIdle
    /\ SliceIdle
    /\ credentials \in CredentialsSet
    /\ dst = NoBytes
    /\ size = NoSize

NextCredentials ==
    \/ Write
    \/ NetworkSize

SpecCredentials == InitCredentials /\ [][NextCredentials]_vars

\* Slices: any slice a read returns, its events, and whether they end the
\* stream.
InitSlice ==
    /\ LoopInit
    /\ VersionIdle
    /\ PositionIdle
    /\ CredentialsIdle
    /\ \/ slice \in StreamSlices
       \/ slice \in AllSlices
    /\ located = NoLocated
    /\ end_of_stream = NoAnswer

NextSlice ==
    \/ SliceEvents
    \/ IsEndOfStream

SpecSlice == InitSlice /\ [][NextSlice]_vars

----------------------------------------------------------------------------
(* Claims. They speak of the last on_event call: the SubEvent it was given *)
(* (handled), what the consumer did in it (run), and the Msgs it sent, in  *)
(* order (sent). A package counts as an Ack or a Nak package by the        *)
(* message it carries, its command tag being the subject of C3.            *)

IsAck(pkg) == pkg.msg.type = "PersistentSubscriptionAckEvents"

IsNak(pkg) == pkg.msg.type = "PersistentSubscriptionNakEvents"

AckPackages == SelectSeq(sent, IsAck)

NakPackages == SelectSeq(sent, IsNak)

\* The last on_event call handled an EventAppeared of a subscription that
\* was confirmed with a persistent_id.
PersistentAppeared ==
    handled.kind = "EventAppeared" /\ persistent_id # None

\* C1: on a confirmed persistent subscription, a handling of EventAppeared
\* in which the consumer pushed n >= 1 acks sent exactly one Ack package,
\* with the subscription's persistent_id and the n ids in the order pushed;
\* with n = 0 it sent no Ack package.
C1_OneAckPackage ==
    PersistentAppeared =>
        IF run.acks = <<>>
        THEN AckPackages = <<>>
        ELSE /\ Len(AckPackages) = 1
             /\ AckPackages[1].msg.subscription_id = persistent_id
             /\ AckPackages[1].msg.processed_event_ids = run.acks

C1_Witness ==
    /\ PersistentAppeared
    /\ run.acks = <<Uuid(2), Uuid(1)>>
    /\ Len(AckPackages) = 1
    /\ AckPackages[1].msg.processed_event_ids = <<Uuid(2), Uuid(1)>>
    /\ AckPackages[1].msg.subscription_id = GroupId

\* The distinct (action, message) pairs among the consumer's nak calls.
NakGroups == {<<run.naks[i].action, run.naks[i].message>> : i \in DOMAIN run.naks}

\* C2, as stated: the number of Nak packages of one handling is the number
\* of distinct (action, message) pairs among the consumer's nak calls.
C2_OnePackagePerGroup ==
    PersistentAppeared => Len(NakPackages) = Cardinality(NakGroups)

\* C2, amended: the number of Nak packages of one handling is the number of
\* nak calls; the i-th package holds the ids, the message and the action of
\* the i-th call, so two calls with the same action and message yield two
\* packages.
C2_OnePackagePerCall ==
    PersistentAppeared =>
        /\ Len(NakPackages) = Len(run.naks)
        /\ \A i \in DOMAIN run.naks :
              /\ NakPackages[i].msg.processed_event_ids = run.naks[i].ids
              /\ NakPackages[i].msg.message = run.naks[i].message
              /\ NakPackages[i].msg.action =
                     to_internal_nak_action(run.naks[i].action)

C2_Witness ==
    /\ PersistentAppeared
    /\ Len(run.naks) = 2
    /\ run.naks[1].action = run.naks[2].action
    /\ run.naks[1].message = run.naks[2].message
    /\ run.naks[1].ids # run.naks[2].ids
    /\ Len(NakPackages) = 2

\* C3: every package on_event sends for a nak carries the command tag
\* PersistentSubscriptionNakEvents, with the persistent_id and the nak's
\* ids, message and action.
C3_NakCommandTag ==
    PersistentAppeared =>
        \A i \in DOMAIN NakPackages :
            /\ NakPackages[i].cmd = "PersistentSubscriptionNakEvents"
            /\ NakPackages[i].msg.subscription_id = persistent_id

\* The loop has ended on OnEvent::Stop.
Ended == pc \in {"returned", "failed"}

\* The last on_event call was a when_event_appeared that returned Drop, on
\* a subscription whose Confirmed had been processed.
DropDecided ==
    /\ handled.kind = "EventAppeared"
    /\ run.decision = "Drop"
    /\ confirmation_id # NoUuid

UnsubscribePackages ==
    SelectSeq(sent, LAMBDA pkg : pkg.cmd = "UnsubscribeFromStream")

\* C4: when when_event_appeared returns Drop on a confirmed subscription,
\* on_event sends exactly one UnsubscribeFromStream package, its correlation
\* id the confirmation id recorded from Confirmed, and the loop (consume or
\* consume_async) ends; once the loop has ended no on_event call is made,
\* so no SubEvent is passed to a hook and nothing more is sent.
C4_DropUnsubscribesAndEnds ==
    /\ [](DropDecided =>
            /\ Len(UnsubscribePackages) = 1
            /\ sent[Len(sent)] =
                   [cmd |-> "UnsubscribeFromStream",
                    correlation |-> confirmation_id, msg |-> NoMsg]
            /\ unsubscribes = 1
            /\ Ended)
    /\ [][~Running => /\ hooks' = hooks
                      /\ handled' = handled
                      /\ sent' = sent
                      /\ unsubscribes' = unsubscribes]_vars

\* consume_async has ended on Drop and an EventAppeared is still on the
\* channel.
C4_Witness ==
    /\ DropDecided
    /\ pc = "failed"
    /\ confirmation_id = ConfirmationId(1)
    /\ sent = <<Unsubscribe(ConfirmationId(1))>>
    /\ receiver # <<>>
    /\ receiver[1].kind = "EventAppeared"
    /\ Len(hooks) = 2

HookCount(name) == Cardinality({i \in DOMAIN hooks : hooks[i].hook = name})

\* C5: when the consumer of a confirmed subscription returns Drop, its
\* when_dropped hook is invoked exactly once.
C5_DroppedHookOnce ==
    (DropDecided /\ Ended) => HookCount("when_dropped") = 1

Queued(w) == \E i \in DOMAIN confirmation_requests : confirmation_requests[i] = w

\* C6: a HasBeenConfirmed handled after a Confirmed was handled is sent to
\* in that on_event call and is not queued; one handled before any Confirmed
\* or Dropped is queued, last, and not sent to.
C6_ConfirmationWait ==
    handled.kind = "HasBeenConfirmed" =>
        /\ HookCount("when_confirmed") > 0 =>
              signalled[handled.req] = 1 /\ ~Queued(handled.req)
        /\ (HookCount("when_confirmed") = 0 /\ HookCount("when_dropped") = 0) =>
              /\ signalled[handled.req] = 0
              /\ confirmation_requests # <<>>
              /\ confirmation_requests[Len(confirmation_requests)] = handled.req

\* The second request, handled after Confirmed, is sent to at once.
C6_Witness ==
    /\ handled.kind = "HasBeenConfirmed"
    /\ handled.req = 2
    /\ hooks = <<Hook("when_confirmed", Confirmed(1, None))>>
    /\ signalled[2] = 1
    /\ ~Queued(2)

\* The request of the w-th confirmation() has been given to on_event.
Processed(w) ==
    /\ w <= waiters_placed
    /\ \A i \in DOMAIN receiver : receiver[i].req # w

\* C7: after a Confirmed or a Dropped is handled confirmation_requests is
\* empty and every request handled so far has been sent to; no request is
\* ever sent to more than once.
C7_DrainSignalsOnce ==
    /\ \A w \in Waiters : signalled[w] <= 1
    /\ handled.kind \in {"Confirmed", "Dropped"} =>
          /\ confirmation_requests = <<>>
          /\ \A w \in Waiters : Processed(w) => signalled[w] = 1

\* Two requests were queued, and a Dropped released both.
C7_Witness ==
    /\ handled.kind = "Dropped"
    /\ hooks = <<Hook("when_dropped", Dropped(1))>>
    /\ Processed(1) /\ Processed(2)
    /\ signalled[1] = 1 /\ signalled[2] = 1
    /\ confirmation_requests = <<>>

\* The Confirmed, EventAppeared and Dropped still on the channel.
PendingEvents ==
    Cardinality({i \in DOMAIN receiver : receiver[i].kind # "HasBeenConfirmed"})

HookOf(kind) ==
    CASE kind = "Confirmed"     -> "when_confirmed"
      [] kind = "EventAppeared" -> "when_event_appeared"
      [] kind = "Dropped"       -> "when_dropped"

\* C8: the hooks are invoked for the SubEvents in the order they were placed
\* on the channel: the i-th hook invocation is for the i-th event placed,
\* while the loop runs every event no longer on the channel has had its
\* hook, and the hook of the event just handled is the one of its kind.
C8_HooksInChannelOrder ==
    /\ \A i \in DOMAIN hooks : hooks[i].n = i
    /\ Running => Len(hooks) = events_placed - PendingEvents
    /\ handled.kind \in {"Confirmed", "EventAppeared", "Dropped"} =>
          /\ hooks # <<>>
          /\ hooks[Len(hooks)] = [hook |-> HookOf(handled.kind), n |-> handled.n]

\* Three events handled in order, the last two EventAppeared.
C8_Witness ==
    /\ Running
    /\ Len(hooks) = 3
    /\ hooks[1] = [hook |-> "when_confirmed", n |-> 1]
    /\ hooks[2] = [hook |-> "when_event_appeared", n |-> 2]
    /\ hooks[3] = [hook |-> "when_event_appeared", n |-> 3]

\* The numbers the four kinds of ExpectedVersion are encoded as.
WireOf(v) ==
    IF v = Any THEN -2
    ELSE IF v = StreamExists THEN -4
    ELSE IF v = NoStream THEN -1
    ELSE v.n

\* C9, as stated: from_i64(to_i64(v)) = v for every ExpectedVersion v,
\* Exact(-1), Exact(-2) and Exact(-4) included; Any, StreamExists, NoStream
\* and Exact(n) encode as -2, -4, -1 and n.
C9_RoundTrip ==
    /\ wire.some => wire.value = WireOf(version)
    /\ decoded.some => decoded.value = version

\* C9, amended: the encodings are as stated, and from_i64(to_i64(v)) = v for
\* every v but Exact(-2), Exact(-4) and Exact(-1), which come back as Any,
\* StreamExists and NoStream.
C9_RoundTripButSentinels ==
    /\ wire.some => wire.value = WireOf(version)
    /\ decoded.some =>
          decoded.value =
              IF version = Exact(-2) THEN Any
              ELSE IF version = Exact(-4) THEN StreamExists
              ELSE IF version = Exact(-1) THEN NoStream
              ELSE version

C9_Witness ==
    /\ version = Exact(-4)
    /\ wire = Some(-4)
    /\ decoded = Some(StreamExists)

\* C10: <= on Position is the lexicographic order of (commit, prepare) and
\* is total; partial_cmp is Some of cmp; Position::start() <= Position::end()
\* is false.
C10_PositionOrder ==
    ordering.done =>
        /\ ordering.le <=>
               \/ pos_a.commit < pos_b.commit
               \/ pos_a.commit = pos_b.commit /\ pos_a.prepare <= pos_b.prepare
        /\ ordering.partial_cmp = Some(ordering.cmp)
        /\ ordering.le \/ ordering.ge
        /\ (ordering.le /\ ordering.ge) <=> pos_a = pos_b
        /\ (pos_a = Position_start /\ pos_b = Position_end) => ~ordering.le

C10_Witness ==
    /\ ordering.done
    /\ pos_a = Position(0, 0)
    /\ pos_b = Position(-1, -1)
    /\ ~ordering.le
    /\ ordering.ge
    /\ ordering.cmp = "Greater"

\* C11: serializing Credentials fails when the login or the password is
\* longer than 255 octets; a length byte written is the number of login or
\* password octets that follow it; network_size is
\* len(login) + len(password) + 2, the number of octets written.
C11_CredentialLengthBounds ==
    LET l == Len(credentials.login)
        p == Len(credentials.password)
    IN /\ dst.written =>
             /\ (l > U8Max \/ p > U8Max) => dst.failed
             /\ ~dst.failed =>
                   /\ dst.bytes[1] = l
                   /\ dst.bytes[l + 2] = p
       /\ size.some => size.value = l + p + 2
       /\ (size.some /\ dst.written /\ ~dst.failed) =>
             size.value = Len(dst.bytes)

\* A Dropped has been handled.
DroppedHandled == HookCount("when_dropped") > 0

\* C12: once a Dropped has been handled no confirmation waiter stays
\* pending: a request given to on_event, after the Dropped of a subscription
\* that was never confirmed too, is eventually sent to.
C12_NoWaiterPendingAfterDropped ==
    \A w \in Waiters :
        (DroppedHandled /\ Processed(w)) ~> (signalled[w] = 1)

\* The last on_event call handled an EventAppeared of a subscription whose
\* Confirmed carried no persistent_id.
VolatileAppeared ==
    /\ handled.kind = "EventAppeared"
    /\ confirmation_id # NoUuid
    /\ persistent_id = None

\* C13: handling an EventAppeared of a subscription confirmed without a
\* persistent_id sends no Ack and no Nak package whatever the consumer
\* pushed, the environment reports retry count 0, and the only package sent
\* is the UnsubscribeFromStream of a Drop.
C13_AckNakPersistentOnly ==
    VolatileAppeared =>
        /\ AckPackages = <<>>
        /\ NakPackages = <<>>
        /\ run.retry_count = 0
        /\ sent = IF run.decision = "Drop"
                  THEN <<Unsubscribe(confirmation_id)>>
                  ELSE <<>>

\* The consumer acked and nakked a redelivered event and returned Drop.
C13_Witness ==
    /\ VolatileAppeared
    /\ handled.retry_count = 1
    /\ run.acks # <<>>
    /\ run.naks # <<>>
    /\ run.decision = "Drop"
    /\ run.retry_count = 0
    /\ sent = <<Unsubscribe(confirmation_id)>>

\* C14: the expect of the Drop branch never fails: whatever SubEvents the
\* loop is given, an EventAppeared before any Confirmed too, when
\* when_event_appeared returns Drop the confirmation id is set.
C14_ExpectNeverFails ==
    /\ pc # "panicked"
    /\ (handled.kind = "EventAppeared" /\ run.decision = "Drop") =>
           confirmation_id # NoUuid

\* C15: one handling of an EventAppeared on a persistent subscription sends
\* its packages in a fixed order: the Ack package, if the consumer acked,
\* then the Nak packages in the order of the consumer's nak calls, then the
\* UnsubscribeFromStream package if the decision is Drop; what was acked and
\* nakked in a call that returns Drop is still sent, before the unsubscribe.
C15_PackageOrder ==
    PersistentAppeared =>
        /\ sent = AckPackages \o NakPackages \o UnsubscribePackages
        /\ Len(AckPackages) = IF run.acks = <<>> THEN 0 ELSE 1
        /\ Len(NakPackages) = Len(run.naks)
        /\ \A i \in DOMAIN NakPackages :
              NakPackages[i].msg.processed_event_ids = run.naks[i].ids
        /\ Len(UnsubscribePackages) = IF run.decision = "Drop" THEN 1 ELSE 0

\* The consumer acked one event, nakked another and returned Drop.
C15_Witness ==
    /\ PersistentAppeared
    /\ run.decision = "Drop"
    /\ Len(run.acks) = 1
    /\ Len(run.naks) = 1
    /\ Len(sent) = 3
    /\ IsAck(sent[1])
    /\ IsNak(sent[2])
    /\ sent[3] = Unsubscribe(confirmation_id)

\* The events() of the slice have been taken and asked whether they end the
\* stream.
Asked == located.tag # "None" /\ end_of_stream.some

\* C16: is_end_of_stream is true exactly when nothing further can be read:
\* on EndOfStream and on Events with no next location; on Events with a next
\* location (those of every AllSlice that is not empty, and of a StreamSlice
\* that is not empty and has a next event number) it is false.
C16_EndOfStream ==
    Asked =>
        /\ end_of_stream.value <=>
               \/ located.tag = "EndOfStream"
               \/ located.tag = "Events" /\ ~located.next.some
        /\ (slice.type = "AllSlice" /\ slice.events # <<>>) =>
               ~end_of_stream.value
        /\ (slice.type = "StreamSlice" /\ slice.events # <<>>
                /\ slice.next.some) =>
               ~end_of_stream.value

====
